---- MODULE Spec2Model ----
(***************************************************************************)
(* Model of the fetch/cache core of market_analysis:                       *)
(*   CacheManager (cachemanager.py), Asset.fetch (asset.py) and            *)
(*   DataFetcher.load_assets (datafetcher.py).                             *)
(*                                                                         *)
(* Time is counted in hours.  A timestamp is an integer number of hours;   *)
(* day d starts at hour 24*d.  Day 0 of the model is a Monday, so that     *)
(* (d % 7) is Python's weekday(): 0 = Monday ... 5 = Saturday, 6 = Sunday. *)
(***************************************************************************)
EXTENDS Integers, Sequences, FiniteSets, TLC

VARIABLES
    now,            \* the wall clock read by pd.Timestamp.now()
    files,          \* the cache directory: ticker -> state of <ticker>.parquet
    ticker_config,  \* DataFetcher.ticker_config: the input tickers, in order
    max_workers,    \* DataFetcher.max_workers
    lpc,            \* position of load_assets
    k,              \* load_assets: index of the next asset to submit / assemble
    queue,          \* executor work queue: submitted, not yet started tickers
    results,        \* load_assets: keys of the results dict, in insertion order
    tpc,            \* per ticker: position of its Asset.fetch call
    fut,            \* per ticker: what the fetch call returned or raised
    df,             \* per ticker: Asset.df
    log,            \* per ticker: what the current/last fetch call did
    calls,          \* per ticker: number of fetch calls started
    wr,             \* a CacheManager.save in progress outside any fetch
    rd,             \* the outcome of the last CacheManager.load outside any fetch
    saved,          \* per ticker: the last save outside any fetch that returned
    fin,            \* input of the last direct is_fresh evaluation
    fout            \* its result

vars == <<now, files, ticker_config, max_workers, lpc, k, queue, results,
          tpc, fut, df, log, calls, wr, rd, saved, fin, fout>>

(***************************************************************************)
(* Bounds of the model.                                                    *)
(***************************************************************************)
MaxRows == 2
MaxWorkers == 2
MaxCalls == 2
MaxTicks == 3

(***************************************************************************)
(* Program constants (config.py).                                          *)
(***************************************************************************)
CACHE_MAX_AGE == 0
SCHEMA_VERSION == "1.0"

Tickers == {"AAA", "BBB", "CCC"}
\* schema versions a CacheManager may be constructed with
Versions == {SCHEMA_VERSION, "0.9"}

(***************************************************************************)
(* Timestamps.                                                             *)
(***************************************************************************)
\* Timestamp.normalize(): midnight of the same day
NormalizeTs(ts) == (ts \div 24) * 24

\* datetime.weekday()
Weekday(ts) == (ts \div 24) % 7

\* pandas BusinessDay._adjust_ndays for an offset of n0 business days
AdjustNDays(n0, wday, weeks) ==
    LET n1 == IF n0 <= 0 /\ wday > 4 THEN n0 + 1 ELSE n0
        n  == n1 - 5 * weeks
    IN  IF n = 0 /\ wday > 4 THEN 4 - wday
        ELSE IF wday > 4 THEN (7 - wday) + (n - 1)
        ELSE IF wday + n <= 4 THEN n
        ELSE n + 2

\* pandas BusinessDay._apply: ts + n business days
BDayApply(n, ts) ==
    LET weeks == n \div 5
        days  == AdjustNDays(n, Weekday(ts), weeks)
    IN  ts + (7 * weeks + days) * 24

\* pandas BusinessDay.is_on_offset
IsOnOffset(ts) == Weekday(ts) < 5

\* pd.offsets.BDay().rollback(ts): ts itself when on a business day,
\* otherwise ts minus one business day
Rollback(ts) == IF IsOnOffset(ts) THEN ts ELSE BDayApply(-1, ts)

(***************************************************************************)
(* Values.  Every value is a record with a field kind, so that any two     *)
(* of them can be compared.                                                *)
(*                                                                         *)
(* A DataFrame is a record                                                 *)
(*   cols  : the set of column names                                       *)
(*   src   : the provider column the price data was taken from             *)
(*   sym   : the ticker the data belongs to                                *)
(*   index : the sequence of timestamps (wall-clock hours)                 *)
(*   tz    : whether the index is timezone-aware                           *)
(*   attrs : df.attrs["schema_version"], or "unset"                        *)
(***************************************************************************)
NoneV == [kind |-> "None"]

Unset == "unset"

Frame(cols, src, sym, index, tz, attrs) ==
    [kind |-> "frame", cols |-> cols, src |-> src, sym |-> sym,
     index |-> index, tz |-> tz, attrs |-> attrs]

SeqMax(s) == CHOOSE x \in {s[j] : j \in 1..Len(s)} :
                 \A j \in 1..Len(s) : s[j] <= x

StrictlyIncreasing(s) == \A j \in 1..(Len(s) - 1) : s[j] < s[j + 1]

StrictlyIncreasingIndex(d) == StrictlyIncreasing(d.index)

\* DataFrame.empty
Empty(d) == Len(d.index) = 0 \/ d.cols = {}

MutRefDay(t) == NormalizeTs(t)

\* the reference day is_fresh compares against
RefDay(t) == Rollback(NormalizeTs(t))

MutIsFresh(d, t) ==
    IF Empty(d) THEN FALSE
    ELSE (RefDay(t) - NormalizeTs(SeqMax(d.index))) \div 24 <= CACHE_MAX_AGE + 1

\* CacheManager.is_fresh
IsFresh(d, t) ==
    IF Empty(d) THEN FALSE
    ELSE LET youngest_date == NormalizeTs(SeqMax(d.index))
             ref_day       == RefDay(t)
             age           == (ref_day - youngest_date) \div 24
         IN  age <= CACHE_MAX_AGE

(***************************************************************************)
(* The cache files.  <ticker>.parquet is missing, not a parquet file       *)
(* (corrupt), not readable by this process, partially written (opened for  *)
(* writing and truncated, the writer not yet finished), or a complete      *)
(* parquet file holding a table and its metadata.                          *)
(***************************************************************************)
Missing    == [kind |-> "missing"]
Corrupt    == [kind |-> "corrupt"]
Unreadable == [kind |-> "unreadable"]
Partial    == [kind |-> "partial"]

MutToParquetNoAttrs(d) ==
    [kind |-> "parquet", cols |-> d.cols, src |-> d.src, sym |-> d.sym,
     index |-> d.index, tz |-> d.tz, meta |-> Unset]

\* DataFrame.to_parquet: the table, and df.attrs in the file's metadata
ToParquet(d) ==
    [kind |-> "parquet", cols |-> d.cols, src |-> d.src, sym |-> d.sym,
     index |-> d.index, tz |-> d.tz, meta |-> d.attrs]

Returned(v) == [kind |-> "returned", value |-> v]
Raised(e)   == [kind |-> "raised", exc |-> e]

\* pd.read_parquet: the frame of a complete parquet file, an exception otherwise
ReadParquet(f) ==
    IF f.kind = "parquet"
    THEN Returned(Frame(f.cols, f.src, f.sym, f.index, f.tz, f.meta))
    ELSE Raised(IF f.kind = "unreadable" THEN "PermissionError" ELSE "ArrowInvalid")

MutSharedPath(ticker) == <<"cache_history", ".parquet">>

\* CacheManager.get_cache_path: os.path.join(cache_dir, f"{ticker}.parquet")
get_cache_path(ticker) == <<"cache_history", ticker, ".parquet">>

\* the file a path names: files holds the file of a path under the ticker
\* whose cache path it is
PathKey(path) == CHOOSE t \in Tickers : get_cache_path(t) = path

MutLoadNoCatch(f, ver) ==
    IF f.kind = "missing" THEN Returned(NoneV)
    ELSE LET r == ReadParquet(f)
         IN  IF r.kind = "raised" THEN r
             ELSE IF r.value.attrs = ver THEN r ELSE Returned(NoneV)

MutLoadAnyVersion(f, ver) ==
    IF f.kind = "missing" THEN Returned(NoneV)
    ELSE LET r == ReadParquet(f)
         IN  IF r.kind = "raised" THEN Returned(NoneV) ELSE r

\* CacheManager.load on a manager with schema version ver, the ticker's
\* file being f: what the call returns (it has no raise of its own)
Load(f, ver) ==
    IF f.kind = "missing" THEN Returned(NoneV)
    ELSE LET r == ReadParquet(f)
         IN  IF r.kind = "raised" THEN Returned(NoneV)
             ELSE IF r.value.attrs = ver THEN r
             ELSE Returned(NoneV)

MutStampNothing(d, ver) == d

\* CacheManager.save, line 125: df.attrs["schema_version"] = self.schema_version
Stamp(d, ver) == [d EXCEPT !.attrs = ver]

(***************************************************************************)
(* The Source Adapter, yf.Ticker(ticker).history(period="max"): a raw      *)
(* table with the provider's columns and one row per trading day, stamped  *)
(* at local midnight of the instrument's time zone.  A row is [wall, off]: *)
(* its local wall-clock hour and its UTC offset in hours; tz tells whether *)
(* the index is timezone-aware.  The zones with daylight saving change to  *)
(* summer time on the Sunday of the model's second week, at 01:00.         *)
(***************************************************************************)
Sunday2 == 7 + 6
Monday3 == 7 + 7

DSTStart == Sunday2 * 24 + 1

ZoneNames == {"naive", "UTC", "Europe/London", "Europe/Vienna", "America/New_York"}

\* the UTC offset of zone at local time wall
ZoneOffset(zone, wall) ==
    LET dst == IF wall >= DSTStart THEN 1 ELSE 0
    IN  CASE zone = "Europe/London"    -> dst
          [] zone = "Europe/Vienna"    -> 1 + dst
          [] zone = "America/New_York" -> dst - 5
          [] OTHER                     -> 0

\* the index of a table with one row for each of days
\* an index of the given wall-clock times in the given zone
RawIndexAt(zone, walls) ==
    [j \in 1..Len(walls) |->
        [wall |-> walls[j], off |-> ZoneOffset(zone, walls[j])]]

RawTableAt(sym, cols, zone, walls) ==
    [kind |-> "raw", sym |-> sym, cols |-> cols,
     index |-> RawIndexAt(zone, walls), tz |-> zone # "naive"]

\* daily data: one row per day, at midnight of the zone
RawIndex(zone, days) ==
    RawIndexAt(zone, [j \in 1..Len(days) |-> days[j] * 24])

RawTable(sym, cols, zone, days) ==
    [kind |-> "raw", sym |-> sym, cols |-> cols,
     index |-> RawIndex(zone, days), tz |-> zone # "naive"]

RawColumns == {{"Adj Close", "Close"}, {"Adj Close"}, {"Close"}, {"Volume"}}

\* the days tables have rows for: the last MaxRows days up to Monday
RawDays == (Monday3 - MaxRows + 1)..Monday3

\* rows at midnight and late in the evening of those days
RawWalls == {d * 24 + h : d \in RawDays, h \in {0, 23}}

WallSeqs ==
    UNION {{s \in [1..n -> RawWalls] : \A j \in 1..(n - 1) : s[j] < s[j + 1]}
           : n \in 0..MaxRows}

\* the raw tables the normalizer is examined on
RawTables(sym) ==
    {RawTableAt(sym, c, z, ws) : c \in RawColumns, z \in ZoneNames, ws \in WallSeqs}

\* pd.DataFrame(): what the provider returns when it has no data
EmptyTable(sym) == RawTable(sym, {}, "naive", <<>>)

\* the tables the provider answers a request at time t with: nothing, or
\* the rows of the last two days of an instrument traded every day, in UTC
\* or in London time, with a close column or without any price column
ProviderTables(sym, t) ==
    {EmptyTable(sym), RawTable(sym, {"Close"}, "UTC", <<>>)} \cup
    {RawTable(sym, c, z, <<(t \div 24) - 1, t \div 24>>) :
        c \in {{"Close"}, {"Volume"}}, z \in {"UTC", "Europe/London"}}

\* what history() may do: raise (network or provider failure) or return a table
History(sym, t) ==
    {Raised("ProviderFailure")} \cup {Returned(h) : h \in ProviderTables(sym, t)}

(***************************************************************************)
(* The Normalizer: Asset.fetch, lines 71-90.                               *)
(***************************************************************************)
MutSelectFirst(hist) ==
    IF "Adj Close" \in hist.cols THEN "Adj Close"
    ELSE IF "Close" \in hist.cols THEN "Close"
    ELSE IF hist.cols # {} THEN CHOOSE c \in hist.cols : TRUE
    ELSE "none"

MutSelectClose(hist) ==
    IF "Close" \in hist.cols THEN "Close"
    ELSE IF "Adj Close" \in hist.cols THEN "Adj Close"
    ELSE "none"

\* the provider column chosen as the price column
SelectColumn(hist) ==
    IF "Adj Close" \in hist.cols THEN "Adj Close"
    ELSE IF "Close" \in hist.cols THEN "Close"
    ELSE "none"

MutLocalDate(hist, j) == NormalizeTs(hist.index[j].wall)

\* one index entry: tz_convert("UTC").tz_localize(None) when the index is
\* timezone-aware, then normalize()
NormalizeEntry(hist, j) ==
    LET ts == IF hist.tz THEN hist.index[j].wall - hist.index[j].off
              ELSE hist.index[j].wall
    IN  NormalizeTs(ts)

NormalizeIndex(hist) == [j \in 1..Len(hist.index) |-> NormalizeEntry(hist, j)]

MutNormalizeKeepIndex(hist) ==
    Frame({"AdjClose"}, SelectColumn(hist), hist.sym,
          [j \in 1..Len(hist.index) |-> hist.index[j].wall], hist.tz, Unset)

\* the frame fetch builds from a non-empty table with a usable column
Normalize(hist) ==
    Frame({"AdjClose"}, SelectColumn(hist), hist.sym, NormalizeIndex(hist), FALSE, Unset)

(***************************************************************************)
(* Asset.fetch for the asset of ticker t, on the shared CacheManager       *)
(* (schema version SCHEMA_VERSION).  The call is cut where it blocks: the  *)
(* cache read, the provider request, opening the cache file for writing    *)
(* and finishing the write.                                                *)
(***************************************************************************)
Pending == [kind |-> "pending"]
Unread  == [kind |-> "unread"]

\* the record of one fetch call, for stating properties: the file and the
\* self.df it found, how the previous call on the asset ended, how often
\* the earlier calls assigned self.df and whether one of them returned a
\* series, what load returned, what is_fresh
\* said and when, what the provider answered, what was passed to save, and
\* how often the call requested the provider, called save and assigned
\* self.df
NewLog(f, prev, d, n, ok) ==
    [file0 |-> f, df0 |-> d, prev |-> prev, sets0 |-> n, ok0 |-> ok,
     cached |-> Unread, fresh |-> FALSE, at |-> 0,
     hist |-> Unread, arg |-> Unread,
     downloads |-> 0, saves |-> 0, sets |-> 0]

taskVars == <<tpc, fut, df, log, calls>>
batchVars == <<ticker_config, max_workers, lpc, k, queue, results>>
cacheVars == <<wr, rd, saved>>
freshVars == <<fin, fout>>

\* how the last fetch call on the asset of t ended
Ended(t) ==
    IF calls[t] = 0 THEN "none"
    ELSE IF fut[t].kind = "raised" THEN "raised"
    ELSE IF fut[t].value = NoneV THEN "absent"
    ELSE IF log[t].downloads = 0 THEN "hit"
    ELSE "saved"

\* a fetch call begins
BeginCall(t) ==
    /\ tpc' = [tpc EXCEPT ![t] = "load"]
    /\ fut' = [fut EXCEPT ![t] = Pending]
    /\ log' = [log EXCEPT ![t] = NewLog(files[PathKey(get_cache_path(t))],
                                        Ended(t), df[t],
                                        log[t].sets0 + log[t].sets,
                                        log[t].ok0 \/ Ended(t) \in {"hit", "saved"})]
    /\ calls' = [calls EXCEPT ![t] = @ + 1]
    /\ UNCHANGED df

\* the file a load leaves behind: load opens the path for reading only
FileAfterLoad(f) == f

MutCacheHitNever(cached, t) == FALSE

MutCacheHitAlways(cached, t) == cached # NoneV

\* line 64: cached is not None and self.cache_manager.is_fresh(cached)
CacheHit(cached, t) == cached # NoneV /\ IsFresh(cached, t)

\* lines 62-66: load, is_fresh, and the return of a fresh entry
TaskLoad(t) ==
    /\ tpc[t] = "load"
    /\ LET r == Load(files[PathKey(get_cache_path(t))], SCHEMA_VERSION)
           cached == r.value
           fresh == CacheHit(cached, now)
       IN  IF r.kind = "raised"
           THEN /\ tpc' = [tpc EXCEPT ![t] = "done"]
                /\ fut' = [fut EXCEPT ![t] = r]
                /\ UNCHANGED <<df, log>>
           ELSE IF fresh
           THEN /\ df' = [df EXCEPT ![t] = cached]
                /\ fut' = [fut EXCEPT ![t] = Returned(cached)]
                /\ tpc' = [tpc EXCEPT ![t] = "done"]
                /\ log' = [log EXCEPT ![t].cached = cached, ![t].fresh = TRUE,
                                      ![t].at = now, ![t].sets = @ + 1]
           ELSE /\ tpc' = [tpc EXCEPT ![t] = "download"]
                /\ log' = [log EXCEPT ![t].cached = cached, ![t].at = now]
                /\ UNCHANGED <<df, fut>>
    /\ files' = [files EXCEPT ![PathKey(get_cache_path(t))] = FileAfterLoad(@)]
    /\ UNCHANGED <<now, calls, batchVars, cacheVars, freshVars>>

MutHistNeverEmpty(hist) == FALSE

\* line 71: if hist.empty
HistEmpty(hist) == Empty(hist)

MutAssignsAlways(hist) == TRUE

\* lines 71-81: fetch goes on to assign self.df (line 76 or 78) unless the
\* table is empty or has no usable column
AssignsSeries(hist) == ~HistEmpty(hist) /\ SelectColumn(hist) # "none"

\* lines 68-90: the provider request and the normalization of its answer
TaskDownload(t) ==
    /\ tpc[t] = "download"
    /\ \E o \in History(t, now) :
          /\ log' = [log EXCEPT ![t].downloads = @ + 1,
                                ![t].hist = o,
                                ![t].sets = IF o.kind = "returned" /\ AssignsSeries(o.value)
                                            THEN @ + 1 ELSE @]
          /\ IF o.kind = "raised"
             THEN /\ fut' = [fut EXCEPT ![t] = o]
                  /\ tpc' = [tpc EXCEPT ![t] = "done"]
                  /\ UNCHANGED df
             ELSE IF ~AssignsSeries(o.value)
             THEN /\ fut' = [fut EXCEPT ![t] = Returned(NoneV)]
                  /\ tpc' = [tpc EXCEPT ![t] = "done"]
                  /\ UNCHANGED df
             ELSE /\ df' = [df EXCEPT ![t] = Normalize(o.value)]
                  /\ tpc' = [tpc EXCEPT ![t] = "save"]
                  /\ UNCHANGED fut
    /\ UNCHANGED <<now, files, calls, batchVars, cacheVars, freshVars>>

\* line 92: self.cache_manager.save(self.df, self.ticker)
SaveCall(d, ticker) == [df |-> d, ticker |-> ticker]

\* line 92, CacheManager.save lines 125-127: the frame is stamped in place,
\* then to_parquet either fails before it has opened the file or opens and
\* truncates it
TaskSaveOpen(t) ==
    /\ tpc[t] = "save"
    /\ df' = [df EXCEPT ![t] = Stamp(@, SCHEMA_VERSION)]
    /\ log' = [log EXCEPT ![t].saves = @ + 1, ![t].arg = SaveCall(df[t], t)]
    /\ \/ /\ files' = [files EXCEPT
                         ![PathKey(get_cache_path(SaveCall(df[t], t).ticker))] = Partial]
          /\ tpc' = [tpc EXCEPT ![t] = "write"]
          /\ UNCHANGED fut
       \/ /\ fut' = [fut EXCEPT ![t] = Raised("OSError")]
          /\ tpc' = [tpc EXCEPT ![t] = "done"]
          /\ UNCHANGED files
    /\ UNCHANGED <<now, calls, batchVars, cacheVars, freshVars>>

\* to_parquet finishes the file and fetch returns self.df (line 93), or the
\* write fails and leaves the file as far as it got
TaskSaveWrite(t) ==
    /\ tpc[t] = "write"
    /\ \/ /\ files' = [files EXCEPT
                         ![PathKey(get_cache_path(log[t].arg.ticker))] = ToParquet(df[t])]
          /\ fut' = [fut EXCEPT ![t] = Returned(df[t])]
       \/ /\ fut' = [fut EXCEPT ![t] = Raised("OSError")]
          /\ UNCHANGED files
    /\ tpc' = [tpc EXCEPT ![t] = "done"]
    /\ UNCHANGED <<now, df, log, calls, batchVars, cacheVars, freshVars>>

(***************************************************************************)
(* DataFetcher.load_assets.  The assets list holds one Asset per entry of  *)
(* ticker_config, in order; the asset at position j has ticker             *)
(* ticker_config[j], and the per-ticker variables above are its fields     *)
(* and its fetch call.                                                     *)
(***************************************************************************)
\* tasks a worker thread is executing
Running == {t \in Tickers : tpc[t] \in {"load", "download", "save", "write"}}

\* line 63, once per asset: executor.submit(asset.fetch)
Submit ==
    /\ lpc = "submit"
    /\ k <= Len(ticker_config)
    /\ tpc' = [tpc EXCEPT ![ticker_config[k]] = "queued"]
    /\ queue' = Append(queue, ticker_config[k])
    /\ k' = k + 1
    /\ UNCHANGED <<now, files, ticker_config, max_workers, lpc, results,
                   fut, df, log, calls, cacheVars, freshVars>>

MutWorkerAlwaysFree == TRUE

\* line 62, ThreadPoolExecutor(max_workers=self.max_workers): the pool has
\* max_workers threads, and a thread executes one work item at a time
WorkerFree == Cardinality(Running) < max_workers

\* a worker thread takes the next work item
Start(t) ==
    /\ queue # <<>>
    /\ t = Head(queue)
    /\ WorkerFree
    /\ queue' = Tail(queue)
    /\ BeginCall(t)
    /\ UNCHANGED <<now, files, ticker_config, max_workers, lpc, k, results,
                   cacheVars, freshVars>>

MutShutdownNoWait == TRUE

\* Executor.__exit__ calls shutdown(wait=True), which joins the worker
\* threads: they exit when the work queue is empty and their item is done
ShutdownComplete ==
    \A j \in 1..Len(ticker_config) : tpc[ticker_config[j]] = "done"

\* the end of the with block, line 62
Join ==
    /\ lpc = "submit"
    /\ k > Len(ticker_config)
    /\ ShutdownComplete
    /\ lpc' = "assemble"
    /\ k' = 1
    /\ UNCHANGED <<now, files, ticker_config, max_workers, queue, results,
                   taskVars, cacheVars, freshVars>>

MutFindAssetFirst(ticker) == 1

\* line 74: next(a for a in assets if a.ticker == ticker)
FindAsset(ticker) ==
    CHOOSE j \in 1..Len(ticker_config) :
        /\ ticker_config[j] = ticker
        /\ \A i \in 1..(j - 1) : ticker_config[i] # ticker

MutAssembleKeepNone(results0, ticker, future) ==
    IF future.kind = "raised" THEN [lpc |-> "raised", results |-> results0]
    ELSE [lpc |-> "assemble",
          results |-> Append(results0, [key |-> ticker, asset |-> FindAsset(ticker)])]

MutAssemblePrepend(results0, ticker, future) ==
    IF future.kind = "raised" THEN [lpc |-> "raised", results |-> results0]
    ELSE IF future.value # NoneV
    THEN [lpc |-> "assemble",
          results |-> <<[key |-> ticker, asset |-> FindAsset(ticker)]>> \o results0]
    ELSE [lpc |-> "assemble", results |-> results0]

\* lines 68-75 for one ticker: future.result() re-raises what the task
\* raised; a task that returned a frame puts its asset into results
AssembleOne(results0, ticker, future) ==
    IF future.kind = "raised" THEN [lpc |-> "raised", results |-> results0]
    ELSE IF future.value # NoneV
    THEN [lpc |-> "assemble",
          results |-> Append(results0, [key |-> ticker, asset |-> FindAsset(ticker)])]
    ELSE [lpc |-> "assemble", results |-> results0]

\* one iteration of the assembly loop, lines 67-75
Assemble ==
    /\ lpc = "assemble"
    /\ k <= Len(ticker_config)
    /\ LET a == AssembleOne(results, ticker_config[k], fut[ticker_config[k]])
       IN  /\ lpc' = a.lpc
           /\ results' = a.results
    /\ k' = k + 1
    /\ UNCHANGED <<now, files, ticker_config, max_workers, queue,
                   taskVars, cacheVars, freshVars>>

\* line 77: return results
Return ==
    /\ lpc = "assemble"
    /\ k > Len(ticker_config)
    /\ lpc' = "returned"
    /\ UNCHANGED <<now, files, ticker_config, max_workers, k, queue, results,
                   taskVars, cacheVars, freshVars>>

(***************************************************************************)
(* Initial states.                                                         *)
(***************************************************************************)
\* a batch starts on Monday at 10:00
BatchNow == Monday3 * 24 + 10

\* the frames an earlier run of the program, started not before t, may have
\* left in the cache
CacheFrames(sym, t) ==
    {Stamp(Normalize(h), v) :
        h \in {x \in ProviderTables(sym, t) \cup ProviderTables(sym, t + 24) :
                  ~Empty(x) /\ SelectColumn(x) # "none"},
        v \in Versions}

\* the states a cache file may be in before a run
FileStates(sym, t) ==
    {Missing, Corrupt, Unreadable, Partial}
        \cup {ToParquet(d) : d \in CacheFrames(sym, t)}

\* ordered ticker configurations: the keys of a dict are distinct
Configs ==
    {c \in UNION {[1..n -> Tickers] : n \in 0..Cardinality(Tickers)} :
        \A i, j \in 1..Len(c) : i # j => c[i] # c[j]}

InConfig(c, t) == \E j \in 1..Len(c) : c[j] = t

IdleTasks ==
    /\ tpc = [t \in Tickers |-> "idle"]
    /\ fut = [t \in Tickers |-> Pending]
    /\ df = [t \in Tickers |-> NoneV]
    /\ log = [t \in Tickers |-> NewLog(files[t], "none", NoneV, 0, FALSE)]
    /\ calls = [t \in Tickers |-> 0]

IdleCache ==
    /\ wr = [pc |-> "idle", last |-> "none"]
    /\ rd = [kind |-> "none"]
    /\ saved = [t \in Tickers |-> NoneV]

IdleFresh ==
    /\ fin = [kind |-> "none"]
    /\ fout = [kind |-> "none"]

\* the files a batch may find: none, or an entry that is up to date, of the
\* current or of an older schema version
BatchFiles(sym) ==
    {Missing} \cup
    {ToParquet(Stamp(Normalize(RawTable(sym, {"Close"}, "UTC",
                                        <<Monday3 - 1, Monday3>>)), v)) :
        v \in Versions}

\* DataFetcher.__init__ and the construction of the assets, lines 56-59
Init ==
    /\ now = BatchNow
    /\ ticker_config \in Configs
    /\ max_workers \in 1..MaxWorkers
    /\ files \in {f \in [Tickers -> UNION {BatchFiles(t) : t \in Tickers}] :
                     \A t \in Tickers :
                        IF InConfig(ticker_config, t) THEN f[t] \in BatchFiles(t)
                        ELSE f[t] = Missing}
    /\ lpc = "submit"
    /\ k = 1
    /\ queue = <<>>
    /\ results = <<>>
    /\ IdleTasks
    /\ IdleCache
    /\ IdleFresh

Next ==
    \/ Submit
    \/ \E t \in Tickers : Start(t)
    \/ \E t \in Tickers : TaskLoad(t)
    \/ \E t \in Tickers : TaskDownload(t)
    \/ \E t \in Tickers : TaskSaveOpen(t)
    \/ \E t \in Tickers : TaskSaveWrite(t)
    \/ Join
    \/ Assemble
    \/ Return

Spec == Init /\ [][Next]_vars

\* the threads of the process are scheduled, and a provider request and a
\* file operation end, by returning or by raising: a step that can be taken
\* is taken
Fairness == WF_vars(Next)

\* the batches followed to their end: the cache holds no entry, or an
\* up-to-date one, for each input ticker
LiveFiles(sym) ==
    {f \in BatchFiles(sym) : f.kind = "parquet" => f.meta = SCHEMA_VERSION}

InitLive ==
    /\ Init
    /\ \A t \in Tickers : files[t] \in LiveFiles(t)

SpecLive == InitLive /\ [][Next]_vars /\ Fairness

(***************************************************************************)
(* Direct use of one Asset: fetch is called on it repeatedly while the     *)
(* clock advances.                                                         *)
(***************************************************************************)
\* the first call is made on the Saturday before, at 10:00
FetchNow == (Sunday2 - 1) * 24 + 10

FetchTickers == {"AAA"}

CallFetch(t) ==
    /\ lpc = "direct"
    /\ tpc[t] \in {"idle", "done"}
    /\ calls[t] < MaxCalls
    /\ BeginCall(t)
    /\ UNCHANGED <<now, files, batchVars, cacheVars, freshVars>>

\* a day passes
Tick ==
    /\ lpc = "direct"
    /\ now < FetchNow + MaxTicks * 24
    /\ now' = now + 24
    /\ UNCHANGED <<files, batchVars, taskVars, cacheVars, freshVars>>

InitFetch ==
    /\ now = FetchNow
    /\ ticker_config = <<>>
    /\ max_workers = 1
    /\ files \in {f \in [Tickers -> UNION {FileStates(t, FetchNow - 24) : t \in Tickers}] :
                     \A t \in Tickers :
                        IF t \in FetchTickers THEN f[t] \in FileStates(t, FetchNow - 24)
                        ELSE f[t] = Missing}
    /\ lpc = "direct"
    /\ k = 1
    /\ queue = <<>>
    /\ results = <<>>
    /\ IdleTasks
    /\ IdleCache
    /\ IdleFresh

NextFetch ==
    \/ \E t \in FetchTickers : CallFetch(t)
    \/ \E t \in FetchTickers : TaskLoad(t)
    \/ \E t \in FetchTickers : TaskDownload(t)
    \/ \E t \in FetchTickers : TaskSaveOpen(t)
    \/ \E t \in FetchTickers : TaskSaveWrite(t)
    \/ Tick

SpecFetch == InitFetch /\ [][NextFetch]_vars

(***************************************************************************)
(* Direct use of CacheManager: one caller saves, in the two steps of       *)
(* to_parquet, while another loads; the managers may have been constructed *)
(* with different schema versions.                                         *)
(***************************************************************************)
CacheTickers == {"AAA"}

\* the frames handed to save: freshly normalized ones, and one that still
\* carries the stamp of an older version
SaveFrames(sym) ==
    LET fresh == {Normalize(h) :
                    h \in {x \in ProviderTables(sym, BatchNow) :
                              ~Empty(x) /\ SelectColumn(x) # "none"}}
    IN  fresh \cup {Stamp(d, "0.9") : d \in {x \in fresh : StrictlyIncreasingIndex(x)}}

\* CacheManager.save, lines 125-127, up to the point where to_parquet has
\* opened the file, or has failed to
CMSaveOpen(t, d, ver) ==
    /\ lpc = "cache"
    /\ wr.pc = "idle"
    /\ \/ /\ files' = [files EXCEPT ![t] = Partial]
          /\ wr' = [pc |-> "write", last |-> wr.last, ticker |-> t, arg |-> d,
                    frame |-> Stamp(d, ver), ver |-> ver, prev |-> files[t]]
          /\ saved' = [saved EXCEPT ![t] = NoneV]
       \/ /\ wr' = [pc |-> "idle", last |-> "raised"]
          /\ UNCHANGED <<files, saved>>
    /\ UNCHANGED <<now, rd, batchVars, taskVars, freshVars>>

\* to_parquet finishes the file and save returns, or the write fails
CMSaveWrite ==
    /\ lpc = "cache"
    /\ wr.pc = "write"
    /\ \/ /\ files' = [files EXCEPT ![wr.ticker] = ToParquet(wr.frame)]
          /\ saved' = [saved EXCEPT ![wr.ticker] =
                          [kind |-> "saved", arg |-> wr.arg, frame |-> wr.frame,
                           ver |-> wr.ver, prev |-> wr.prev]]
          /\ wr' = [pc |-> "idle", last |-> "returned"]
       \/ /\ wr' = [pc |-> "idle", last |-> "raised"]
          /\ UNCHANGED <<files, saved>>
    /\ UNCHANGED <<now, rd, batchVars, taskVars, freshVars>>

\* CacheManager.load, lines 99-107, on a manager of schema version ver
CMLoad(t, ver) ==
    /\ lpc = "cache"
    /\ LET writing == wr.pc = "write" /\ wr.ticker = t
       IN  rd' = [kind |-> "load", ticker |-> t, ver |-> ver,
                  seen |-> files[t], out |-> Load(files[t], ver),
                  after |-> FileAfterLoad(files[t]),
                  writing |-> writing,
                  prev |-> IF writing THEN wr.prev ELSE files[t],
                  new |-> IF writing THEN ToParquet(wr.frame) ELSE files[t],
                  saved |-> saved[t]]
    /\ files' = [files EXCEPT ![t] = FileAfterLoad(@)]
    /\ UNCHANGED <<now, wr, saved, batchVars, taskVars, freshVars>>

InitCache ==
    /\ now = BatchNow
    /\ ticker_config = <<>>
    /\ max_workers = 1
    /\ files \in {f \in [Tickers -> UNION {FileStates(t, BatchNow) : t \in Tickers}] :
                     \A t \in Tickers :
                        IF t \in CacheTickers THEN f[t] \in FileStates(t, BatchNow)
                        ELSE f[t] = Missing}
    /\ lpc = "cache"
    /\ k = 1
    /\ queue = <<>>
    /\ results = <<>>
    /\ IdleTasks
    /\ wr = [pc |-> "idle", last |-> "none"]
    /\ rd = [kind |-> "none"]
    /\ saved = [t \in Tickers |-> NoneV]
    /\ IdleFresh

NextCache ==
    \/ \E t \in CacheTickers : \E d \in SaveFrames(t) : \E ver \in Versions :
          CMSaveOpen(t, d, ver)
    \/ CMSaveWrite
    \/ \E t \in CacheTickers : \E ver \in Versions : CMLoad(t, ver)

SpecCache == InitCache /\ [][NextCache]_vars

(***************************************************************************)
(* Direct evaluation of CacheManager.is_fresh on a frame at a time.        *)
(***************************************************************************)
Monday2 == Monday3 - 7

\* every day of a week and the Monday after, in the morning and in the evening
FreshNows == {d * 24 + h : d \in Monday2..Monday3, h \in {10, 20}}

FreshStamps == {d * 24 + h : d \in (Monday2 - 2)..Monday3, h \in {0, 15}}

FreshIndexes ==
    UNION {{s \in [1..n -> FreshStamps] : \A j \in 1..(n - 1) : s[j] < s[j + 1]}
           : n \in 0..MaxRows}

FreshFrames ==
    {Frame({"AdjClose"}, "Close", "AAA", i, FALSE, SCHEMA_VERSION) : i \in FreshIndexes}

EvalIsFresh ==
    /\ lpc = "fresh"
    /\ fout.kind = "none"
    /\ fout' = [kind |-> "out", fresh |-> IsFresh(fin.frame, fin.at),
                ref |-> RefDay(fin.at)]
    /\ UNCHANGED <<now, files, fin, batchVars, taskVars, cacheVars>>

InitFresh ==
    /\ fin \in {[kind |-> "in", frame |-> d, at |-> t] : d \in FreshFrames, t \in FreshNows}
    /\ fout = [kind |-> "none"]
    /\ now = fin.at
    /\ ticker_config = <<>>
    /\ max_workers = 1
    /\ files = [t \in Tickers |-> Missing]
    /\ lpc = "fresh"
    /\ k = 1
    /\ queue = <<>>
    /\ results = <<>>
    /\ IdleTasks
    /\ IdleCache

NextFresh == EvalIsFresh

SpecFresh == InitFresh /\ [][NextFresh]_vars

(***************************************************************************)
(* The normalizer on its own: lines 74-90 of Asset.fetch applied to one    *)
(* raw table.                                                              *)
(***************************************************************************)
\* lines 74-90: None when the table has no usable column (line 81), else the
\* frame with the selected column and the normalized index
NormalizerResult(hist) ==
    IF SelectColumn(hist) = "none" THEN NoneV ELSE Normalize(hist)

EvalNormalize ==
    /\ lpc = "normalize"
    /\ fout.kind = "none"
    /\ fout' = [kind |-> "out", result |-> NormalizerResult(fin.hist)]
    /\ UNCHANGED <<now, files, fin, batchVars, taskVars, cacheVars>>

InitNorm ==
    /\ fin \in {[kind |-> "in", hist |-> h] : h \in RawTables("AAA")}
    /\ fout = [kind |-> "none"]
    /\ now = BatchNow
    /\ ticker_config = <<>>
    /\ max_workers = 1
    /\ files = [t \in Tickers |-> Missing]
    /\ lpc = "normalize"
    /\ k = 1
    /\ queue = <<>>
    /\ results = <<>>
    /\ IdleTasks
    /\ IdleCache

NextNorm == EvalNormalize

SpecNorm == InitNorm /\ [][NextNorm]_vars

(***************************************************************************)
(* Properties of load_assets (specification Spec).                         *)
(***************************************************************************)
Keys(r) == [j \in 1..Len(r) |-> r[j].key]

\* the fetch task of ticker t yielded a series
Yielded(t) == fut[t].kind = "returned" /\ fut[t].value # NoneV

\* the fetch task of ticker t failed: no data, no usable column, or an exception
Failed(t) == fut[t].kind = "raised" \/ (fut[t].kind = "returned" /\ fut[t].value = NoneV)

AllTasksDone == \A j \in 1..Len(ticker_config) : tpc[ticker_config[j]] = "done"

\* C1: per-ticker failures are never raised to the caller of load_assets:
\* whatever the tasks did (empty answer, no usable column, an exception in a
\* task's fetch), load_assets does not raise, and the mapping it returns
\* holds exactly the tickers whose fetch yielded a series.
C1_FailuresNeverRaised ==
    /\ lpc # "raised"
    /\ lpc = "returned" =>
          \A j \in 1..Len(ticker_config) :
             Yielded(ticker_config[j]) <=>
                 \E i \in 1..Len(results) : results[i].key = ticker_config[j]

\* C2: the key sequence of the returned mapping is the input ticker sequence
\* with exactly the tickers whose fetch yielded no series removed, whatever
\* the interleaving and completion order of the tasks.
C2_KeyOrder ==
    lpc = "returned" => Keys(results) = SelectSeq(ticker_config, Yielded)

\* the spec's example: [AAA, BBB, CCC] with CCC yielding no series
C2_Witness ==
    /\ lpc = "returned"
    /\ ticker_config = <<"AAA", "BBB", "CCC">>
    /\ fut["CCC"] = Returned(NoneV)
    /\ Keys(results) = <<"AAA", "BBB">>

\* C14: at any moment of load_assets at most max_workers fetch tasks are
\* executing, hence at most max_workers provider requests are in progress;
\* every other submitted task that has not finished is in the queue of the
\* executor, once, and nothing else is.
C14_AtMostMaxWorkersRunning ==
    /\ Cardinality(Running) <= max_workers
    /\ Cardinality({t \in Tickers : tpc[t] = "download"}) <= max_workers
    /\ \A t \in Tickers :
          tpc[t] = "queued" <=> \E j \in 1..Len(queue) : queue[j] = t
    /\ \A i, j \in 1..Len(queue) : i # j => queue[i] # queue[j]
    /\ lpc = "submit" =>
          \A j \in 1..(k - 1) :
              tpc[ticker_config[j]] = "queued"
                  \/ ticker_config[j] \in Running
                  \/ tpc[ticker_config[j]] = "done"

\* two tasks wait in the queue while the only worker requests the provider
C14_Witness ==
    /\ max_workers = 1
    /\ Len(queue) = 2
    /\ Cardinality(Running) = max_workers
    /\ \E t \in Tickers : tpc[t] = "download"

\* fetch has been submitted for every input ticker before position j of the
\* submission loop, and for no other ticker
SubmittedOnce ==
    /\ \A t \in Tickers : calls[t] <= 1
    /\ \A t \in Tickers : ~InConfig(ticker_config, t) => tpc[t] = "idle"
    /\ \A j \in 1..Len(ticker_config) :
          tpc[ticker_config[j]] # "idle" <=> (lpc # "submit" \/ j < k)

\* assembly has begun only after every task ran, once, to its end
AssemblyAfterAllTasks ==
    lpc \in {"assemble", "returned", "raised"} =>
        /\ queue = <<>>
        /\ \A j \in 1..Len(ticker_config) :
              /\ tpc[ticker_config[j]] = "done"
              /\ calls[ticker_config[j]] = 1
              /\ fut[ticker_config[j]] # Pending

\* C15: load_assets submits exactly one fetch task per input ticker, every
\* submitted task runs to its end, whatever the other tasks do, and the
\* assembly of the results begins only when all tasks have ended.
C15_AllTasksRunToCompletion ==
    /\ []SubmittedOnce
    /\ []AssemblyAfterAllTasks
    /\ \A t \in Tickers : (tpc[t] = "queued") ~> (tpc[t] = "done")
    /\ <>(lpc \in {"returned", "raised"})

\* assembly begins after the first task raised and the second, which was
\* still queued then, has returned a series
C15_Witness ==
    /\ lpc = "assemble"
    /\ max_workers = 1
    /\ Len(ticker_config) = 3
    /\ fut[ticker_config[1]].kind = "raised"
    /\ fut[ticker_config[2]].kind = "returned"
    /\ fut[ticker_config[2]].value # NoneV
    /\ calls[ticker_config[3]] = 1

\* C20: in the mapping load_assets returns, every key is paired with the
\* Asset constructed for that key, no key occurs twice, and the series of
\* that asset is the one the fetch task of the key returned, holding the
\* data of that ticker, whatever the interleaving of the tasks was.
C20_KeysPairedWithOwnAsset ==
    lpc = "returned" =>
        /\ \A i, j \in 1..Len(results) : i # j => results[i].key # results[j].key
        /\ \A i \in 1..Len(results) :
              LET key == results[i].key
                  asset == ticker_config[results[i].asset]
              IN  /\ results[i].asset \in 1..Len(ticker_config)
                  /\ asset = key
                  /\ fut[key].kind = "returned"
                  /\ df[asset] = fut[key].value
                  /\ df[asset].kind = "frame"
                  /\ df[asset].sym = key

\* three keys returned after two workers ran the tasks, one series from the
\* cache and one downloaded
C20_Witness ==
    /\ lpc = "returned"
    /\ max_workers = 2
    /\ Len(results) = 3
    /\ log[results[1].key].downloads = 1
    /\ log[results[2].key].downloads = 0
    /\ log[results[3].key].downloads = 1

\* C23: when load_assets has returned, for every key of the mapping whose
\* series was downloaded in this run, the cache file of the key is a
\* complete entry of the current schema version, and reading it back gives
\* the series the returned asset holds, schema attribute included.
C23_MemoryAndDiskAgree ==
    lpc = "returned" =>
        \A i \in 1..Len(results) :
            LET key == results[i].key
                asset == ticker_config[results[i].asset]
            IN  log[key].downloads = 1 =>
                    /\ files[key].kind = "parquet"
                    /\ files[key].meta = SCHEMA_VERSION
                    /\ ReadParquet(files[key]) = Returned(df[asset])
                    /\ Load(files[key], SCHEMA_VERSION) = Returned(df[asset])

\* a returned asset whose download replaced an entry of an older version
C23_Witness ==
    /\ lpc = "returned"
    /\ \E i \in 1..Len(results) :
          /\ log[results[i].key].downloads = 1
          /\ log[results[i].key].file0.kind = "parquet"
          /\ log[results[i].key].file0.meta # SCHEMA_VERSION
          /\ files[results[i].key].meta = SCHEMA_VERSION

\* a PriceSeries: non-empty, timezone-naive, every entry at midnight,
\* dates strictly increasing
WellFormedSeries(d) ==
    /\ d.kind = "frame"
    /\ ~Empty(d)
    /\ ~d.tz
    /\ \A j \in 1..Len(d.index) : d.index[j] = NormalizeTs(d.index[j])
    /\ StrictlyIncreasing(d.index)

\* C10: every key of the returned mapping is an input key, and its asset's
\* series is non-empty with a timezone-naive, midnight-normalized index of
\* strictly increasing dates, from the cache or from a download.
C10_ReturnedSeriesWellFormed ==
    lpc = "returned" =>
        \A i \in 1..Len(results) :
            /\ InConfig(ticker_config, results[i].key)
            /\ WellFormedSeries(df[ticker_config[results[i].asset]])

(***************************************************************************)
(* Properties of Asset.fetch (specification SpecFetch).                    *)
(***************************************************************************)
\* the fetch call of t has read the cache
HasLoaded(t) == log[t].cached # Unread

\* the entry a load of file f returns to the shared cache manager, when fresh at time at
FreshEntry(f, at) ==
    /\ Load(f, SCHEMA_VERSION).value # NoneV
    /\ IsFresh(Load(f, SCHEMA_VERSION).value, at)

\* C3: when load returns an entry and is_fresh accepts it, fetch adopts the
\* entry as the asset's series and returns it, without a provider request
\* and without a save.
C3_CacheHitNoDownloadNoSave ==
    \A t \in Tickers :
        (HasLoaded(t) /\ FreshEntry(log[t].file0, log[t].at)) =>
            /\ tpc[t] = "done"
            /\ fut[t] = Load(log[t].file0, SCHEMA_VERSION)
            /\ df[t] = fut[t].value
            /\ log[t].downloads = 0
            /\ log[t].saves = 0
            /\ files[t] = log[t].file0

C3_Witness ==
    \E t \in Tickers :
        /\ HasLoaded(t)
        /\ FreshEntry(log[t].file0, log[t].at)
        /\ tpc[t] = "done"
        /\ calls[t] = 1
        /\ df[t].kind = "frame"

\* C4: once a fetch has left an entry on disk, by cache hit or by download
\* and save, the entry matches the schema version, and the next fetch for
\* the ticker makes no provider request if that entry is fresh when it runs.
C4_SecondFetchNoDownload ==
    \A t \in Tickers :
        (calls[t] >= 2 /\ log[t].prev \in {"hit", "saved"}) =>
            /\ log[t].file0.kind = "parquet"
            /\ log[t].file0.meta = SCHEMA_VERSION
            /\ (HasLoaded(t) /\ IsFresh(ReadParquet(log[t].file0).value, log[t].at)) =>
                  /\ log[t].downloads = 0
                  /\ tpc[t] = "done"
                  /\ fut[t] = ReadParquet(log[t].file0)

\* a second fetch served from the entry the first one downloaded and saved
C4_Witness ==
    \E t \in Tickers :
        /\ calls[t] = 2
        /\ log[t].prev = "saved"
        /\ tpc[t] = "done"
        /\ log[t].downloads = 0
        /\ fut[t].kind = "returned"
        /\ fut[t].value # NoneV

\* the provider answered the fetch call of t with a non-empty table that has
\* a usable price column
GotUsable(t) ==
    /\ log[t].hist # Unread
    /\ log[t].hist.kind = "returned"
    /\ ~Empty(log[t].hist.value)
    /\ SelectColumn(log[t].hist.value) # "none"

\* the normalized series of a raw table: the selected column under the name
\* AdjClose, over the UTC dates of the rows, timezone-naive, not yet stamped
NormalizedSeries(hist) ==
    Frame({"AdjClose"}, SelectColumn(hist), hist.sym,
          [j \in 1..Len(hist.index) |-> NormalizeEntry(hist, j)], FALSE, Unset)

\* C11: a fetch call that found no fresh entry and got a non-empty table
\* with a usable column calls save exactly once, after normalization, with
\* the normalized series and its own ticker, and when save returns, fetch
\* returns that same series (then stamped and on disk); the only other end
\* of such a call is the exception of save itself.
C11_SaveOnceNormalizedAndReturned ==
    \A t \in Tickers :
        GotUsable(t) =>
            LET d == NormalizedSeries(log[t].hist.value)
            IN  /\ log[t].cached = NoneV \/ ~IsFresh(log[t].cached, log[t].at)
                /\ log[t].saves <= 1
                /\ tpc[t] = "save" => (log[t].saves = 0 /\ df[t] = d)
                /\ log[t].saves = 1 => log[t].arg = [df |-> d, ticker |-> t]
                /\ tpc[t] = "done" =>
                      /\ log[t].saves = 1
                      /\ fut[t].kind = "returned" =>
                            /\ fut[t].value = Stamp(d, SCHEMA_VERSION)
                            /\ df[t] = fut[t].value
                            /\ files[t] = ToParquet(fut[t].value)
                      /\ fut[t].kind = "raised" => fut[t].exc = "OSError"

\* the provider answered the fetch call of t with a table that has no rows
\* or no columns
GotEmpty(t) ==
    /\ log[t].hist # Unread
    /\ log[t].hist.kind = "returned"
    /\ (Len(log[t].hist.value.index) = 0 \/ log[t].hist.value.cols = {})

\* C12: a fetch call that found no fresh entry and got an empty result
\* returns None without calling save, and the cache file of the ticker is
\* as it was when the call began.
C12_EmptyResultNoSave ==
    \A t \in Tickers :
        GotEmpty(t) =>
            /\ log[t].cached = NoneV \/ ~IsFresh(log[t].cached, log[t].at)
            /\ tpc[t] = "done"
            /\ fut[t] = Returned(NoneV)
            /\ log[t].saves = 0
            /\ log[t].arg = Unread
            /\ files[t] = log[t].file0

\* an empty result with columns, received over a stale entry
C12_Witness ==
    \E t \in Tickers :
        /\ GotEmpty(t)
        /\ log[t].hist.value.cols # {}
        /\ log[t].cached # NoneV
        /\ log[t].file0.kind = "parquet"
        /\ tpc[t] = "done"

\* the provider answered the fetch call of t with a non-empty table that
\* has neither an adjusted-close nor a close column
GotNoPriceColumn(t) ==
    /\ log[t].hist # Unread
    /\ log[t].hist.kind = "returned"
    /\ Len(log[t].hist.value.index) > 0
    /\ log[t].hist.value.cols # {}
    /\ "Adj Close" \notin log[t].hist.value.cols
    /\ "Close" \notin log[t].hist.value.cols

\* C13: a fetch call that got a non-empty table without an adjusted-close
\* and without a close column returns None, makes no save call and leaves
\* the cache file alone, and does not assign the asset's series: the series
\* is what the call found, which is None on a new asset.
C13_NoPriceColumnNoSeries ==
    \A t \in Tickers :
        GotNoPriceColumn(t) =>
            /\ tpc[t] = "done"
            /\ fut[t] = Returned(NoneV)
            /\ log[t].saves = 0
            /\ files[t] = log[t].file0
            /\ log[t].sets = 0
            /\ df[t] = log[t].df0
            /\ calls[t] = 1 => df[t] = NoneV

\* the first call on an asset gets a table with a Volume column only
C13_Witness ==
    \E t \in Tickers :
        /\ GotNoPriceColumn(t)
        /\ calls[t] = 1
        /\ tpc[t] = "done"
        /\ df[t] = NoneV

\* C16 as stated: fetch assigns the series of an Asset instance at most
\* once: counting the assignments of all fetch calls made on the instance,
\* there is never more than one.
C16_AtMostOncePerInstance ==
    \A t \in Tickers : log[t].sets0 + log[t].sets <= 1

\* C16 as amended: a fetch call assigns the series at most once, namely
\* when it adopts a fresh cache entry or has got a non-empty table with a
\* usable column; a call that assigns nothing leaves the series as it found
\* it.  (A later call on the same instance assigns again.)
C16_AtMostOncePerCall ==
    \A t \in Tickers :
        /\ log[t].sets <= 1
        /\ log[t].sets = 1 <=> (log[t].fresh \/ GotUsable(t))
        /\ log[t].sets = 0 => df[t] = log[t].df0

\* the second call on an instance assigns the series the first one had set
C16_Witness ==
    \E t \in Tickers :
        /\ calls[t] = 2
        /\ log[t].sets0 = 1
        /\ log[t].sets = 1
        /\ tpc[t] = "done"
        /\ df[t] # log[t].df0

\* C19: the series of an Asset is absent until a fetch on it succeeds:
\* whenever no call is in progress on the instance and its series is set,
\* some fetch call on the instance has returned a series (a call that
\* returned None or raised has left the series absent).
C19_SeriesAbsentUntilFetchSucceeds ==
    \A t \in Tickers :
        (tpc[t] \in {"idle", "done"} /\ df[t] # NoneV) =>
            \/ log[t].ok0
            \/ (tpc[t] = "done" /\ fut[t].kind = "returned" /\ fut[t].value # NoneV)

\* the fetch call of t has ended by returning a series without a provider
\* request: the series is the cache entry
AdoptedFromCache(t) ==
    /\ tpc[t] = "done"
    /\ fut[t].kind = "returned"
    /\ fut[t].value # NoneV
    /\ log[t].downloads = 0

\* the fetch call of t found a file that holds an entry, of whatever schema
\* version, that is not usable at the time of the call: of another version,
\* or stale
FoundUnusableEntry(t) ==
    /\ HasLoaded(t)
    /\ log[t].file0.kind = "parquet"
    /\ \/ log[t].file0.meta # SCHEMA_VERSION
       \/ ~IsFresh(ReadParquet(log[t].file0).value, log[t].at)

\* C22: stale cached data is never served: a series fetch adopts from the
\* cache is the entry of the current schema version on file, and is_fresh
\* accepted it in that same call; and a call that found a stale or
\* schema-mismatched entry makes a provider request and, once ended, has
\* returned a series only if the provider gave a usable table, None when it
\* gave an empty one or one without a price column.
C22_StaleNeverServed ==
    \A t \in Tickers :
        /\ AdoptedFromCache(t) =>
              /\ log[t].fresh
              /\ fut[t].value = ReadParquet(log[t].file0).value
              /\ fut[t].value.attrs = SCHEMA_VERSION
              /\ IsFresh(fut[t].value, log[t].at)
        /\ (FoundUnusableEntry(t) /\ tpc[t] = "done") =>
              /\ log[t].downloads = 1
              /\ (fut[t].kind = "returned" /\ fut[t].value # NoneV) => GotUsable(t)
              /\ (GotEmpty(t) \/ GotNoPriceColumn(t)) => fut[t] = Returned(NoneV)

\* a stale entry of the current version on file, a table without a price
\* column from the provider, and None returned
C22_Witness ==
    \E t \in Tickers :
        /\ FoundUnusableEntry(t)
        /\ log[t].file0.meta = SCHEMA_VERSION
        /\ GotNoPriceColumn(t)
        /\ tpc[t] = "done"
        /\ fut[t] = Returned(NoneV)

\* a stale entry replaced by a download that was saved and returned
C11_Witness ==
    \E t \in Tickers :
        /\ GotUsable(t)
        /\ log[t].cached # NoneV
        /\ ~IsFresh(log[t].cached, log[t].at)
        /\ tpc[t] = "done"
        /\ fut[t].kind = "returned"
        /\ log[t].saves = 1

(***************************************************************************)
(* Properties of the cache files during load_assets (specification Spec).  *)
(***************************************************************************)
\* distinct tickers have distinct cache paths
DistinctPaths ==
    \A s, t \in Tickers : s # t => get_cache_path(s) # get_cache_path(t)

\* the states the cache file of ticker t can be in, given what the fetch
\* task of t alone has found and done: the file it found while it has not
\* called save, a truncated file while to_parquet is writing, the saved
\* series once fetch has returned it, and the file it found or a truncated
\* one after save has raised
OwnFileStates(t) ==
    IF log[t].saves = 0 THEN {log[t].file0}
    ELSE IF tpc[t] = "write" THEN {Partial}
    ELSE IF fut[t].kind = "returned"
    THEN {ToParquet(Stamp(NormalizedSeries(log[t].hist.value), SCHEMA_VERSION))}
    ELSE {log[t].file0, Partial}

\* the file of every ticker depends on the task of that ticker only
OwnFileOnly == \A t \in Tickers : files[t] \in OwnFileStates(t)

\* a step changes the file of ticker u only if it is a step of the save of
\* the task of u
NoCrossTickerWrite ==
    \A u \in Tickers :
        files'[u] # files[u] => (tpc[u] \in {"save", "write"} /\ tpc'[u] # tpc[u])

\* the load of the task of t reads the file of t
ReadsOwnFile ==
    \A t \in Tickers :
        (tpc[t] = "load" /\ tpc'[t] # "load") =>
            log'[t].cached = Load(files[t], SCHEMA_VERSION).value

\* C21: distinct tickers map to distinct cache paths, and the fetch task of
\* a ticker reads and writes the file of that ticker only: no step changes
\* the file of a ticker other than the one whose task takes it, so at every
\* moment, and at the end of the batch, each file is what the task of its
\* own ticker makes of it, whatever the order in which the tasks ran.
C21_OneFilePerKey ==
    /\ [](DistinctPaths /\ OwnFileOnly)
    /\ [][NoCrossTickerWrite /\ ReadsOwnFile]_vars

\* two tasks write their files at the same time while the entry of a third,
\* still queued, is in place
C21_Witness ==
    \E s, t, u \in Tickers :
        /\ s # t
        /\ tpc[s] = "write"
        /\ tpc[t] = "write"
        /\ tpc[u] = "queued"
        /\ files[u].kind = "parquet"
        /\ files[s] = Partial
        /\ files[t] = Partial

(***************************************************************************)
(* Properties of the normalizer (specification SpecNorm).                  *)
(***************************************************************************)
\* the normalizer has been applied to the table drawn
Normalized == lpc = "normalize" /\ fout.kind = "out"

\* C17: for every raw table the normalizer gives a frame with the single
\* column AdjClose, taken from Adj Close whenever the table has one and from
\* Close only when it has no Adj Close, and gives no result when the table
\* has neither.
C17_ColumnSelection ==
    Normalized =>
        LET cols == fin.hist.cols
            r == fout.result
        IN  /\ "Adj Close" \in cols =>
                  (r.kind = "frame" /\ r.cols = {"AdjClose"} /\ r.src = "Adj Close")
            /\ ("Adj Close" \notin cols /\ "Close" \in cols) =>
                  (r.kind = "frame" /\ r.cols = {"AdjClose"} /\ r.src = "Close")
            /\ ("Adj Close" \notin cols /\ "Close" \notin cols) => r = NoneV

\* a table with both columns, normalized from Adj Close
C17_Witness ==
    /\ Normalized
    /\ fin.hist.cols = {"Adj Close", "Close"}
    /\ Len(fin.hist.index) > 0
    /\ fout.result.kind = "frame"
    /\ fout.result.src = "Adj Close"

\* C18: for every raw timestamp that carries a UTC offset, the normalized
\* index entry is timezone-naive, at midnight, and on the calendar date of
\* the UTC instant (wall-clock time minus offset), not on the local date.
C18_UtcCalendarDate ==
    (Normalized /\ fin.hist.tz /\ fout.result # NoneV) =>
        /\ ~fout.result.tz
        /\ Len(fout.result.index) = Len(fin.hist.index)
        /\ \A j \in 1..Len(fin.hist.index) :
              /\ fout.result.index[j] % 24 = 0
              /\ fout.result.index[j] \div 24
                    = (fin.hist.index[j].wall - fin.hist.index[j].off) \div 24

\* a row at local midnight with offset +02:00 lands on the day before
C18_Witness ==
    /\ Normalized
    /\ fout.result # NoneV
    /\ \E j \in 1..Len(fin.hist.index) :
          /\ fin.hist.index[j].off = 2
          /\ fin.hist.index[j].wall % 24 = 0
          /\ fout.result.index[j] = fin.hist.index[j].wall - 24

(***************************************************************************)
(* Properties of CacheManager (specification SpecCache).                   *)
(***************************************************************************)
\* the table of a frame, without its attrs
Table(d) == [cols |-> d.cols, src |-> d.src, sym |-> d.sym, index |-> d.index, tz |-> d.tz]

\* C5: a load that follows a save of the same ticker which has returned
\* gives, on a manager of the version the save stamped, a frame equal to the
\* saved one and carrying that version, whatever the file held before; on a
\* manager of another version it gives None.
C5_SaveLoadRoundTrip ==
    (rd.kind = "load" /\ rd.saved # NoneV) =>
        IF rd.ver = rd.saved.ver
        THEN /\ rd.out.kind = "returned"
             /\ rd.out.value # NoneV
             /\ Table(rd.out.value) = Table(rd.saved.arg)
             /\ rd.out.value.attrs = rd.saved.ver
        ELSE rd.out = Returned(NoneV)

\* a frame saved over an entry of another version, and loaded back
C5_Witness ==
    /\ rd.kind = "load"
    /\ rd.saved # NoneV
    /\ rd.ver = rd.saved.ver
    /\ rd.saved.prev.kind = "parquet"
    /\ rd.saved.prev.meta # rd.saved.ver
    /\ rd.saved.arg.attrs # rd.saved.ver
    /\ rd.out = Returned(rd.saved.frame)

\* a load on a manager of another version than the one stamped
C5_WitnessMismatch ==
    /\ rd.kind = "load"
    /\ rd.saved # NoneV
    /\ rd.ver # rd.saved.ver
    /\ rd.out = Returned(NoneV)

\* C6: save is atomic with respect to readers: a load that runs while a save
\* of the same ticker is in progress returns what it would return on the
\* complete previous file or on the complete new file.
C6_SaveAtomicForReaders ==
    (rd.kind = "load" /\ rd.writing) =>
        rd.out \in {Load(rd.prev, rd.ver), Load(rd.new, rd.ver)}

\* C7: load never raises; for a missing, unreadable, corrupted or partially
\* written file it returns None; and it leaves the file as it found it.
C7_LoadNeverRaises ==
    rd.kind = "load" =>
        /\ rd.out.kind = "returned"
        /\ rd.seen.kind \in {"missing", "unreadable", "corrupt", "partial"} =>
              rd.out = Returned(NoneV)
        /\ rd.after = rd.seen

C7_Witness ==
    /\ rd.kind = "load"
    /\ rd.seen.kind \in {"unreadable", "corrupt"}
    /\ rd.out = Returned(NoneV)
    /\ files[rd.ticker] = rd.seen

(***************************************************************************)
(* Properties of is_fresh (specification SpecFresh).                       *)
(***************************************************************************)
IsBusinessDay(d) == d % 7 < 5

\* the latest business day on or before day d, as a timestamp
LatestBusinessDay(d) ==
    24 * (CHOOSE b \in (d - 6)..d :
             /\ IsBusinessDay(b)
             /\ \A c \in (b + 1)..d : ~IsBusinessDay(c))

\* the trading day of the current date has fully elapsed: it is a business
\* day, and past the close of trading (17:00)
TradingDayElapsed(t) == IsBusinessDay(t \div 24) /\ t % 24 >= 17

\* the latest completed business day: today if its trading day has fully
\* elapsed, the business day before otherwise
LatestCompletedBusinessDay(t) ==
    IF TradingDayElapsed(t) THEN 24 * (t \div 24)
    ELSE LatestBusinessDay((t \div 24) - 1)

\* the latest date of the evaluated frame
LatestDate == NormalizeTs(SeqMax(fin.frame.index))

\* C8 as stated: is_fresh is true when the latest date is the latest
\* completed business day, false when it is a day older or more, false for
\* an empty entry.
C8_FreshnessBoundaryCompleted ==
    fout.kind = "out" =>
        IF Empty(fin.frame) THEN ~fout.fresh
        ELSE /\ LatestDate = LatestCompletedBusinessDay(fin.at) => fout.fresh
             /\ LatestDate <= LatestCompletedBusinessDay(fin.at) - 24 => ~fout.fresh

\* C8, amended: with maximum age 0, is_fresh is true when the latest date is
\* the latest business day on or before the current date, false when it is
\* a day older or more, false for an empty entry, on every day of the week.
C8_FreshnessBoundary ==
    fout.kind = "out" =>
        IF Empty(fin.frame) THEN ~fout.fresh
        ELSE /\ LatestDate = LatestBusinessDay(fin.at \div 24) => fout.fresh
             /\ LatestDate <= LatestBusinessDay(fin.at \div 24) - 24 => ~fout.fresh

\* on a Sunday, an entry up to the Friday before is fresh
C8_Witness ==
    /\ fout.kind = "out"
    /\ Weekday(fin.at) = 6
    /\ ~Empty(fin.frame)
    /\ LatestDate = LatestBusinessDay(fin.at \div 24)
    /\ LatestDate = NormalizeTs(fin.at) - 48
    /\ fout.fresh

\* on a Saturday, an entry up to the Thursday before is stale
C8_WitnessStale ==
    /\ fout.kind = "out"
    /\ Weekday(fin.at) = 5
    /\ ~Empty(fin.frame)
    /\ LatestDate = LatestBusinessDay(fin.at \div 24) - 24
    /\ ~fout.fresh

\* C9 as stated: the reference day is the most recent completed business
\* day: today only if today's trading day has fully elapsed.
C9_RefDayCompleted ==
    fout.kind = "out" => fout.ref = LatestCompletedBusinessDay(fin.at)

\* C9, amended: the reference day is the latest business day on or before
\* the current date: today on every weekday, whatever the time of day, and
\* the Friday before on a Saturday or Sunday.
C9_RefDayLatestBusinessDay ==
    fout.kind = "out" =>
        /\ fout.ref = LatestBusinessDay(fin.at \div 24)
        /\ Weekday(fin.at) < 5 => fout.ref = NormalizeTs(fin.at)
        /\ Weekday(fin.at) = 5 => fout.ref = NormalizeTs(fin.at) - 24
        /\ Weekday(fin.at) = 6 => fout.ref = NormalizeTs(fin.at) - 48

\* a weekday morning: the reference day is today all the same
C9_Witness ==
    /\ fout.kind = "out"
    /\ Weekday(fin.at) = 2
    /\ ~TradingDayElapsed(fin.at)
    /\ fout.ref = NormalizeTs(fin.at)

\* a Sunday: the reference day is the Friday before
C9_WitnessWeekend ==
    /\ fout.kind = "out"
    /\ Weekday(fin.at) = 6
    /\ fout.ref = NormalizeTs(fin.at) - 48

====
